---- MODULE Spec2Model ----
(***************************************************************************)
(* Model of hook_open.js, a Frida smoke-test probe.                        *)
(*                                                                         *)
(* The script body writes a load marker with console.log, then calls       *)
(* setTimeout(cb, 1000).  The timer callback calls Java.perform(fn), and   *)
(* fn writes three more lines with console.log.                            *)
(*                                                                         *)
(* The host (Frida and the target process) is the environment: it lets     *)
(* time pass, fires the timer no earlier than its delay, decides what      *)
(* Java.perform does with fn (throw, run it at once, or queue it until the *)
(* application class loader exists), and may kill the process between any  *)
(* two statements.                                                         *)
(*                                                                         *)
(* A JavaScript string is modelled as the sequence of its "\n"-separated   *)
(* segments; console.log(s) appends s and a newline to the console, so the *)
(* segments of s become lines of the console text.                         *)
(***************************************************************************)
EXTENDS Integers, Sequences, FiniteSets, TLC

VARIABLES
    pc,            \* position in the script body: "start", "schedule", "end"
    out,           \* arguments of the console.log calls made so far, in order
    timer,         \* the setTimeout timer: [st, at, due]
    ctx,           \* Java.perform / managed-runtime context state
    cb,            \* number of statements of the Java.perform callback executed
    alive,         \* the target process is running
    now,           \* milliseconds since the script started to load
    killedAt,      \* value of now when the process was killed, -1 while alive
    setTimeoutCalls, \* number of calls of setTimeout
    timerFires,    \* number of invocations of the timer callback
    performCalls   \* number of calls of Java.perform

vars == <<pc, out, timer, ctx, cb, alive, now, killedAt,
          setTimeoutCalls, timerFires, performCalls>>

probeVars == <<pc, out, timer, ctx, cb, setTimeoutCalls, timerFires, performCalls>>

----------------------------------------------------------------------------
(* Bounds of the model *)

TickMs == 100
MaxTime == 2000
MaxCount == 3

(* Program constant: the delay passed to setTimeout *)
Delay == 1000

----------------------------------------------------------------------------
(* The string literals passed to console.log, as "\n"-separated segments *)

LoadMarker == <<"[*] test script (v12) injected...">>

AttachMsgNoBlank == <<"[+] script is running inside the target process!">>

AttachMsg == <<"", "[+] script is running inside the target process!">>

ReadyMsg == <<"[+] Java environment is ready.">>

NoCrashMsg == <<"[+] if you can see this message, attach succeeded and the program did not crash.">>

(* console.log(s): the console receives s followed by a newline *)
ConsoleLog(sink, s) == Append(sink, s)

(* The console text as lines: the segments of every write, in order *)
RECURSIVE ConsoleText(_)
ConsoleText(sink) ==
    IF sink = <<>> THEN <<>>
    ELSE Head(sink) \o ConsoleText(Tail(sink))

Inc(n) == IF n < MaxCount THEN n + 1 ELSE n

NoTimer == [st |-> "none", at |-> 0, due |-> 0]

(* setTimeout(f, delay) called at time t: a one-shot timer due at t + delay *)
NewTimerNoDelay(t, delay) == [st |-> "pending", at |-> t, due |-> t]

NewTimer(t, delay) == [st |-> "pending", at |-> t, due |-> t + delay]

(* The timer after its callback was invoked at time t *)
FiredTimerRearmed(tm, t) == [tm EXCEPT !.at = t, !.due = t + Delay]

FiredTimer(tm, t) == [tm EXCEPT !.st = "fired"]

----------------------------------------------------------------------------
Init ==
    /\ pc = "start"
    /\ out = <<>>
    /\ timer = NoTimer
    /\ ctx = "none"
    /\ cb = 0
    /\ alive = TRUE
    /\ now = 0
    /\ killedAt = -1
    /\ setTimeoutCalls = 0
    /\ timerFires = 0
    /\ performCalls = 0

(* line 3: console.log(load marker) *)
LogLoadMissing ==
    /\ alive
    /\ pc = "start"
    /\ pc' = "schedule"
    /\ UNCHANGED <<out, timer, ctx, cb, alive, now, killedAt,
                   setTimeoutCalls, timerFires, performCalls>>

LogLoad ==
    /\ alive
    /\ pc = "start"
    /\ out' = ConsoleLog(out, LoadMarker)
    /\ pc' = "schedule"
    /\ UNCHANGED <<timer, ctx, cb, alive, now, killedAt,
                   setTimeoutCalls, timerFires, performCalls>>

(* lines 6 and 15: setTimeout(function() {...}, 1000) *)
SetTimeout ==
    /\ alive
    /\ pc = "schedule"
    /\ timer' = NewTimer(now, Delay)
    /\ setTimeoutCalls' = Inc(setTimeoutCalls)
    /\ pc' = "end"
    /\ UNCHANGED <<out, ctx, cb, alive, now, killedAt, timerFires, performCalls>>

(* Outcomes of the call Java.perform(fn) at line 9 *)
PerformOutcomes == {"entered", "deferred", "failed"}

(* lines 6-15: the timer callback runs and calls Java.perform(fn) *)
TimerFireLogsOutside ==
    /\ alive
    /\ timer.st = "pending"
    /\ now >= timer.due
    /\ timer' = FiredTimer(timer, now)
    /\ timerFires' = Inc(timerFires)
    /\ out' = ConsoleLog(out, AttachMsg)
    /\ cb' = 1
    /\ performCalls' = Inc(performCalls)
    /\ \E o \in PerformOutcomes : ctx' = o
    /\ UNCHANGED <<pc, alive, now, killedAt, setTimeoutCalls>>

TimerFire ==
    /\ alive
    /\ timer.st = "pending"
    /\ now >= timer.due
    /\ timer' = FiredTimer(timer, now)
    /\ timerFires' = Inc(timerFires)
    /\ performCalls' = Inc(performCalls)
    /\ \E o \in PerformOutcomes : ctx' = o
    /\ cb' = 0
    /\ UNCHANGED <<pc, out, alive, now, killedAt, setTimeoutCalls>>

(* Java.perform runs a queued fn once the class loader is available *)
HostDispatch ==
    /\ alive
    /\ ctx = "deferred"
    /\ ctx' = "entered"
    /\ UNCHANGED <<pc, out, timer, cb, alive, now, killedAt,
                   setTimeoutCalls, timerFires, performCalls>>

(* The argument of the k-th console.log of the Java.perform callback *)
CallbackMsgSwapped(k) ==
    IF k = 1 THEN ReadyMsg ELSE IF k = 2 THEN AttachMsg ELSE NoCrashMsg

CallbackMsg(k) ==
    IF k = 1 THEN AttachMsg ELSE IF k = 2 THEN ReadyMsg ELSE NoCrashMsg

(* lines 10-12: the next console.log of the Java.perform callback *)
CallbackLogUnguarded ==
    /\ alive
    /\ ctx \in {"entered", "failed"}
    /\ cb < 3
    /\ out' = ConsoleLog(out, CallbackMsg(cb + 1))
    /\ cb' = cb + 1
    /\ UNCHANGED <<pc, timer, ctx, alive, now, killedAt,
                   setTimeoutCalls, timerFires, performCalls>>

CallbackLog ==
    /\ alive
    /\ ctx = "entered"
    /\ cb < 3
    /\ out' = ConsoleLog(out, CallbackMsg(cb + 1))
    /\ cb' = cb + 1
    /\ UNCHANGED <<pc, timer, ctx, alive, now, killedAt,
                   setTimeoutCalls, timerFires, performCalls>>

(* line 13: the Java.perform callback returns *)
CallbackReturn ==
    /\ alive
    /\ ctx = "entered"
    /\ cb = 3
    /\ ctx' = "exited"
    /\ UNCHANGED <<pc, out, timer, cb, alive, now, killedAt,
                   setTimeoutCalls, timerFires, performCalls>>

(* Time passes; the clock is followed up to MaxTime, and past it until a    *)
(* pending timer is due                                                    *)
Tick ==
    /\ \/ now + TickMs <= MaxTime
       \/ timer.st = "pending" /\ now < timer.due /\ now < MaxTime + Delay
    /\ now' = now + TickMs
    /\ UNCHANGED <<pc, out, timer, ctx, cb, alive, killedAt,
                   setTimeoutCalls, timerFires, performCalls>>

(* The target process is terminated *)
Kill ==
    /\ alive
    /\ alive' = FALSE
    /\ killedAt' = now
    /\ UNCHANGED <<pc, out, timer, ctx, cb, now,
                   setTimeoutCalls, timerFires, performCalls>>

Next ==
    \/ LogLoad
    \/ SetTimeout
    \/ TimerFire
    \/ HostDispatch
    \/ CallbackLog
    \/ CallbackReturn
    \/ Tick
    \/ Kill

Spec == Init /\ [][Next]_vars

(* The event loop of a live process runs ready script code, time advances, *)
(* and a callback queued by Java.perform is run once the application's     *)
(* class loader exists.  Nothing makes Java.perform succeed: it throws     *)
(* when the process has no Java runtime.                                   *)
FairSpec ==
    /\ Spec
    /\ WF_vars(LogLoad)
    /\ WF_vars(SetTimeout)
    /\ WF_vars(TimerFire)
    /\ WF_vars(HostDispatch)
    /\ WF_vars(CallbackLog)
    /\ WF_vars(CallbackReturn)
    /\ WF_vars(Tick)

----------------------------------------------------------------------------
TypeOK ==
    /\ pc \in {"start", "schedule", "end"}
    /\ timer.st \in {"none", "pending", "fired"}
    /\ ctx \in {"none", "entered", "deferred", "failed", "exited"}
    /\ cb \in 0..3
    /\ alive \in BOOLEAN
    /\ now \in 0..(MaxTime + Delay + TickMs)
    /\ killedAt \in -1..(MaxTime + Delay + TickMs)
    /\ setTimeoutCalls \in 0..MaxCount
    /\ timerFires \in 0..MaxCount
    /\ performCalls \in 0..MaxCount

----------------------------------------------------------------------------
(* Vocabulary of the properties *)

IsPrefix(s, t) == Len(s) <= Len(t) /\ SubSeq(t, 1, Len(s)) = s

(* The four console.log calls of a complete run, in program order *)
FullOutput == <<LoadMarker, AttachMsg, ReadyMsg, NoCrashMsg>>

(* The console text of a complete run, line by line *)
ExpectedText ==
    << "[*] test script (v12) injected...",
       "",
       "[+] script is running inside the target process!",
       "[+] Java environment is ready.",
       "[+] if you can see this message, attach succeeded and the program did not crash." >>

AttachLines == {AttachMsg, ReadyMsg, NoCrashMsg}

Occurrences(m) == Cardinality({i \in DOMAIN out : out[i] = m})

(* Milliseconds since setTimeout was called *)
SinceScheduled == now - timer.at

(* The lifecycle of the probe *)
Phase ==
    IF ctx = "exited" THEN "Attached"
    ELSE IF timer.st # "none" THEN "Waiting"
    ELSE "Loaded"

Rank(ph) == IF ph = "Loaded" THEN 1 ELSE IF ph = "Waiting" THEN 2 ELSE 3

----------------------------------------------------------------------------
(* C1: the load marker is written exactly once, by the script body itself  *)
(* before setTimeout is called and before the timer callback or the        *)
(* Java.perform callback runs, and it is the first write to the console.   *)
C1_LoadMarkerFirstOnce ==
    /\ pc = "start" =>
          /\ out = <<>>
          /\ timer.st = "none" /\ setTimeoutCalls = 0
          /\ timerFires = 0 /\ performCalls = 0 /\ ctx = "none"
    /\ pc # "start" =>
          /\ Len(out) >= 1
          /\ out[1] = LoadMarker
          /\ Occurrences(LoadMarker) = 1
    /\ pc = "schedule" => out = <<LoadMarker>> /\ timer.st = "none"

C1_Witness ==
    /\ pc = "end"
    /\ ctx = "exited"
    /\ Len(out) = 4

(* C2 as stated, read in its favour (the process is not killed later):    *)
(* once the process has survived 1000 ms after load, the three attachment  *)
(* lines are eventually all on the console.                                *)
C2_SurvivalImpliesAttachLines ==
    (alive /\ pc = "end" /\ SinceScheduled >= Delay)
        ~> (~alive \/ out = FullOutput)

(* C2 amended: if the process stays alive the timer callback eventually    *)
(* runs and requests Java.perform; if the host runs the Java.perform       *)
(* callback and the process stays alive until it returns, the three        *)
(* attachment lines are eventually written; and they are only ever written *)
(* once each, in the fixed order, after the load marker.                   *)
C2_AttachLinesWhenContextEntered ==
    /\ (timer.st = "pending") ~> (~alive \/ performCalls = 1)
    /\ (ctx = "entered") ~> (~alive \/ (out = FullOutput /\ ctx = "exited"))
    /\ [](\A m \in AttachLines : Occurrences(m) <= 1)
    /\ [](IsPrefix(out, FullOutput))

C2_Witness ==
    /\ alive
    /\ SinceScheduled >= Delay
    /\ ctx = "exited"
    /\ out = FullOutput

(* C3: a process killed after the script loaded and before 1000 ms have    *)
(* passed since setTimeout has written the load marker and nothing else,   *)
(* one line of text, in that state and in every later one.                 *)
C3_KilledBeforeDelay ==
    (/\ ~alive
     /\ pc # "start"
     /\ (timer.st = "none" \/ killedAt - timer.at < Delay))
    => /\ out = <<LoadMarker>>
       /\ Len(ConsoleText(out)) = 1
       /\ timerFires = 0
       /\ performCalls = 0

C3_Witness ==
    /\ ~alive
    /\ timer.st = "pending"
    /\ killedAt - timer.at < Delay
    /\ killedAt > timer.at
    /\ SinceScheduled >= Delay

(* C4: setTimeout is called at most once, its callback and Java.perform    *)
(* are invoked at most once, and a timer is never re-armed or rescheduled. *)
C4_OneShot ==
    /\ [](setTimeoutCalls <= 1 /\ timerFires <= 1 /\ performCalls <= 1)
    /\ [](setTimeoutCalls = 0 <=> timer.st = "none")
    /\ [](timerFires = 1 <=> timer.st = "fired")
    /\ [][timer.st = "fired" => timer' = timer]_vars
    /\ [][timer.st = "pending" =>
            timer'.at = timer.at /\ timer'.due = timer.due]_vars

C4_Witness ==
    /\ timerFires = 1
    /\ performCalls = 1
    /\ timer.st = "fired"
    /\ now > timer.due

(* C5: after a complete run the console holds exactly the four writes in   *)
(* program order; as text, five lines of which the second is the only      *)
(* blank one; and the attachment lines came no earlier than the delay.     *)
C5_CompleteRunOutput ==
    ctx = "exited" =>
        /\ out = FullOutput
        /\ Len(out) = 4
        /\ ConsoleText(out) = ExpectedText
        /\ {i \in DOMAIN ConsoleText(out) : ConsoleText(out)[i] = ""} = {2}
        /\ Cardinality({i \in DOMAIN ConsoleText(out) : ConsoleText(out)[i] # ""}) = 4
        /\ SinceScheduled >= Delay

C5_Witness ==
    /\ ctx = "exited"
    /\ alive
    /\ now >= 2 * Delay

(* C6: the lifecycle only moves Loaded -> Waiting -> Attached, one phase   *)
(* at a time and never backwards; nothing of the probe changes once it is  *)
(* Attached; a pending timer is never cancelled.                           *)
C6_Lifecycle ==
    /\ [][/\ Rank(Phase') >= Rank(Phase)
          /\ Rank(Phase') <= Rank(Phase) + 1]_vars
    /\ [][Phase = "Attached" => UNCHANGED probeVars]_vars
    /\ [][timer.st = "pending" => timer'.st \in {"pending", "fired"}]_vars

C6_Witness ==
    /\ Phase = "Attached"
    /\ alive
    /\ now > timer.due

(* C7: when Java.perform fails, or has queued the callback without running *)
(* it, Java.perform was called exactly once, the timer is spent, the       *)
(* console holds the load marker alone, and after a failure the probe does *)
(* nothing more.                                                           *)
C7_NoRetryWhenContextUnavailable ==
    /\ [](ctx \in {"failed", "deferred"} =>
            /\ out = <<LoadMarker>>
            /\ performCalls = 1
            /\ timerFires = 1
            /\ setTimeoutCalls = 1
            /\ timer.st = "fired")
    /\ [][ctx = "failed" => UNCHANGED probeVars]_vars
    /\ [][ctx = "deferred" /\ ctx' = "deferred" => UNCHANGED probeVars]_vars

C7_Witness ==
    /\ ctx = "failed"
    /\ alive
    /\ now > timer.due + TickMs

(* C8: while less than 1000 ms have passed since setTimeout was called the *)
(* timer callback has not run, Java.perform has not been requested and the *)
(* console holds the load marker alone; while the timer is pending the     *)
(* probe changes nothing.                                                  *)
C8_NothingBeforeDelay ==
    /\ [](timer.st # "none" /\ SinceScheduled < Delay =>
            /\ timer.st = "pending"
            /\ timerFires = 0
            /\ performCalls = 0
            /\ ctx = "none"
            /\ out = <<LoadMarker>>)
    /\ [](now < Delay => performCalls = 0 /\ IsPrefix(out, <<LoadMarker>>))
    /\ [][timer.st = "pending" /\ timer'.st = "pending" =>
            UNCHANGED probeVars]_vars

C8_Witness ==
    /\ alive
    /\ timer.st = "pending"
    /\ SinceScheduled > 0
    /\ SinceScheduled + TickMs >= Delay
    /\ SinceScheduled < Delay

(* C9: every write after the load marker is made inside the managed        *)
(* context entered through Java.perform; the timer callback writes nothing *)
(* itself, and Java.perform is requested only by the timer callback.       *)
C9_AttachLinesOnlyInContext ==
    /\ [][out' # out =>
            \/ pc = "start" /\ pc' = "schedule" /\ out' = <<LoadMarker>>
            \/ /\ ctx = "entered" /\ ctx' = "entered"
               /\ timerFires' = timerFires
               /\ \E m \in AttachLines : out' = Append(out, m)]_vars
    /\ [][timerFires' # timerFires => out' = out]_vars
    /\ [][performCalls' # performCalls =>
            timer.st = "pending" /\ timer'.st = "fired"]_vars
    /\ [](\A i \in DOMAIN out : out[i] \in AttachLines =>
            ctx \in {"entered", "exited"})

C9_Witness ==
    /\ ctx = "entered"
    /\ Len(out) = 3
    /\ out[3] = ReadyMsg

(* C10: in every state, also after a kill or a failure at any point, the   *)
(* writes made so far are a prefix of the fixed sequence of four, exactly  *)
(* as long as the statements executed.                                     *)
C10_OutputIsPrefix ==
    /\ IsPrefix(out, FullOutput)
    /\ Len(out) = (IF pc = "start" THEN 0 ELSE 1) + cb

C10_Witness ==
    /\ ~alive
    /\ ctx = "entered"
    /\ Len(out) = 2
    /\ now > killedAt

====
